---- MODULE Spec2Model ----
(***************************************************************************)
(* stlab::copy_on_write<T> (include/stlab/copy_on_write.hpp) as a state    *)
(* machine.  The element type T is the line vector of the `document`       *)
(* class of examples/basic_usage_test.cpp.                                 *)
(*                                                                         *)
(* Threads run handle operations concurrently.  An operation is one step   *)
(* per access to the atomic _count; what a thread does to memory that only *)
(* it can reach (the handle's own _self, a temporary, a cell fresh from    *)
(* operator new, a cell whose count it has just taken to zero) belongs to  *)
(* the step of the _count access before it.  The test `unique()` and the   *)
(* mutation that relies on it are separate steps.  No two threads operate  *)
(* on the same handle object at the same time, which is the precondition   *)
(* the class documents for concurrent use; so an operation in progress is  *)
(* named by the handle it runs on, and NumThreads bounds how many are in   *)
(* progress at once.  The build is the assertion-enabled one: a failed     *)
(* assert() ends the process.  So does an exception thrown by operator     *)
(* new, by the copy of T or by a transform: the example catches none.      *)
(***************************************************************************)
EXTENDS Integers, Sequences, FiniteSets, TLC

\* ---- bounds of the model
NumThreads == 2
MaxHandles == 2
MaxCells == 2
MaxLen == 1

Handles == 1..MaxHandles
\* the lines a caller may insert
Lines == {"a"}

\* nullptr: the _self of a moved-from handle
NULL == -1
\* the address of the function-local static `default_s`
default_model == 0
\* the addresses operator new may return (a deleted cell's address is free again)
HeapCells == 1..MaxCells
Cells == {default_model} \cup HeapCells

\* the element type: vectors of lines, of bounded length
T == UNION {[1..n -> Lines] : n \in 0..MaxLen}
\* T{}: the value a default-constructed model holds
DefaultValue == <<>>

VARIABLES
    self,     \* self[h]: the _self pointer of handle object h (NULL: moved from)
    alive,    \* alive[h]: handle object h is constructed and not destroyed
    cell,     \* cell[c]: "unused" (never constructed), "live" (constructed and not
              \* deleted) or "freed" (deleted: operator new may return c again)
    count,    \* count[c]: model::_count
    value,    \* value[c]: model::_value
    pc,       \* pc[h]: where the operation in progress on handle object h stands:
              \* "idle" (none in progress); "attach" (line 174 is next); "release"
              \* (the temporary of a copy assignment is next to be destroyed);
              \* "unique" / "shared" (the test of line 246, 264 or 289 has found
              \* the handle unique / not unique: the operations are alike up to
              \* that test, so which of them it is shows in the step that follows);
              \* "ref" (write() has returned its reference to the caller);
              \* "throw" (an exception is leaving the operation)
    tmp,      \* tmp[h]: the _self of the temporary the operation has yet to destroy
    fault     \* "none", or why the process has stopped

vars == <<self, alive, cell, count, value, pc, tmp, fault>>

\* the cells as one value, so that the steps of an operation compose
Heap == [cell |-> cell, count |-> count, value |-> value, fault |-> fault]
Commit(H) ==
    /\ cell' = H.cell
    /\ count' = H.count
    /\ value' = H.value
    /\ fault' = H.fault

\* ---- operator new: the lowest free address (addresses are only ever compared
\* for equality, so which free one is returned makes no difference)
Live(c) == cell[c] = "live"
HasFree == \E c \in HeapCells : ~Live(c)
NewCell == CHOOSE c \in HeapCells : ~Live(c) /\ \A d \in HeapCells : ~Live(d) => c <= d

\* a cell constructed with no count of its own
new_model_uncounted(H, c, v) == [H EXCEPT !.cell[c] = "live", !.count[c] = 0, !.value[c] = v]
\* new model(v) (lines 126-132, 181): cell c constructed with _count 1 holding v
new_model(H, c, v) == [H EXCEPT !.cell[c] = "live", !.count[c] = 1, !.value[c] = v]

\* a failed new-expression that keeps the memory it was given
new_throws_leak(H, c) ==
    IF c = NULL THEN [H EXCEPT !.fault = "uncaught exception"]
    ELSE [H EXCEPT !.cell[c] = "live", !.count[c] = 1, !.fault = "uncaught exception"]
\* new model(v) that throws (lines 181, 189): operator new has no memory to give
\* (c is NULL), or the constructor of _value throws (line 132) and the
\* new-expression gives the memory of c back before the exception leaves it.
\* Nothing in the example catches (test, lines 53-114): the process ends
new_throws(H, c) == [H EXCEPT !.fault = "uncaught exception"]
\* the memory a new-expression would be given
Memory == IF HasFree THEN NewCell ELSE NULL

\* an increment that is lost
fetch_add_lost(H, c) == H
\* _count.fetch_add(1): lines 174, 198
fetch_add(H, c) == [H EXCEPT !.count[c] = @ + 1]
\* a decrement that is lost
fetch_sub_lost(H, c) == H
\* _count.fetch_sub(1): line 213
fetch_sub(H, c) == [H EXCEPT !.count[c] = @ - 1]
\* a test that also takes the last but one holder for the last
was_last_early(prev) == prev <= 2
\* the test of line 213 on the value fetch_sub returned
was_last(prev) == prev = 1
\* delete _self: line 218
delete(H, c) ==
    IF H.cell[c] = "live"
    THEN [H EXCEPT !.cell[c] = "freed", !.value[c] = DefaultValue]
    ELSE [H EXCEPT !.fault = "double free"]

\* ~copy_on_write(): lines 211-220, on a handle whose _self is c: the assert of
\* line 212, the fetch_sub and its test, the assert of line 216, the delete
destructor(H, c) ==
    IF c = NULL THEN H
    ELSE IF H.cell[c] # "live" THEN [H EXCEPT !.fault = "use after free"]
    ELSE IF H.count[c] = 0 THEN [H EXCEPT !.fault = "assert: double delete"]
    ELSE IF was_last(H.count[c])
         THEN IF c = default_model
              THEN [fetch_sub(H, c) EXCEPT !.fault = "assert: default model"]
              ELSE delete(fetch_sub(H, c), c)
         ELSE fetch_sub(H, c)

\* ---- observers
\* read(): lines 301-305
read(h) == value[self[h]]
\* a uniqueness test that tolerates one other holder
unique_upto2(h) == count[self[h]] <= 2
\* unique(): lines 327-331
unique(h) == count[self[h]] = 1
\* identity(): lines 342-346
identity(x, y) == self[x] = self[y]

\* ---- comparisons: lines 365-415
\* std::string's operator< on the lines of the model, in the order of LineOrder
LineOrder == <<"a">>
line_lt(x, y) ==
    \E i, j \in 1..Len(LineOrder) : i < j /\ LineOrder[i] = x /\ LineOrder[j] = y
\* std::vector's operator<: lexicographical comparison
value_lt(u, v) ==
    \E k \in 0..Len(u) :
        /\ k <= Len(v)
        /\ \A i \in 1..k : u[i] = v[i]
        /\ \/ k = Len(u) /\ k < Len(v)
           \/ k < Len(u) /\ k < Len(v) /\ line_lt(u[k + 1], v[k + 1])
\* an equality that compares cells only
op_eq_cells(x, y) == identity(x, y)
\* operator==: lines 413-415
op_eq(x, y) == identity(x, y) \/ read(x) = read(y)
\* operator!=: lines 425-427
op_ne(x, y) == ~op_eq(x, y)
\* operator<: lines 365-367
op_lt(x, y) == ~identity(x, y) /\ value_lt(read(x), read(y))
\* operator>: lines 377-379
op_gt(x, y) == op_lt(y, x)
\* operator<=: lines 389-391
op_le(x, y) == ~op_lt(y, x)
\* operator>=: lines 401-403
op_ge(x, y) == ~op_lt(x, y)

\* ---- document::insert / document::erase callbacks (basic_usage_test.cpp)
insert_transform(lines, line, index) ==
    SubSeq(lines, 1, index) \o <<line>> \o SubSeq(lines, index + 1, Len(lines))
insert_inplace(lines, line, index) ==
    [i \in 1..(Len(lines) + 1) |->
        IF i <= index THEN lines[i] ELSE IF i = index + 1 THEN line ELSE lines[i - 1]]
erase_transform(lines, index) ==
    SubSeq(lines, 1, index) \o SubSeq(lines, index + 2, Len(lines))
erase_inplace(lines, index) ==
    [i \in 1..(Len(lines) - 1) |-> IF i <= index THEN lines[i] ELSE lines[i + 1]]

transform(e, lines) ==
    IF e.kind = "insert" THEN insert_transform(lines, e.line, e.index)
    ELSE erase_transform(lines, e.index)
inplace(e, lines) ==
    IF e.kind = "insert" THEN insert_inplace(lines, e.line, e.index)
    ELSE erase_inplace(lines, e.index)

\* the edits document::insert / document::erase may apply to `lines`
\* (their assert on index, and the length bound of the model)
Edits(lines) ==
    {[kind |-> "insert", line |-> l, index |-> i] :
        l \in Lines, i \in {j \in 0..Len(lines) : Len(lines) < MaxLen}}
    \cup {[kind |-> "erase", line |-> "", index |-> i] : i \in 0..(Len(lines) - 1)}
\* every edit a caller may ask for
AllEdits == UNION {Edits(lines) : lines \in T}

Init ==
    /\ self = [h \in Handles |-> NULL]
    /\ alive = [h \in Handles |-> FALSE]
    /\ cell = [c \in Cells |-> "unused"]
    /\ count = [c \in Cells |-> 0]
    /\ value = [c \in Cells |-> DefaultValue]
    /\ pc = [h \in Handles |-> "idle"]
    /\ tmp = [h \in Handles |-> NULL]
    /\ fault = "none"

Running == fault = "none"
\* the handles with an operation in progress, each run by a thread of its own
Busy == {h \in Handles : pc[h] # "idle"}
\* a thread is free to start an operation
Starts == Running /\ Cardinality(Busy) < NumThreads
\* handle object h exists and no operation is in progress on it
Avail(h) == alive[h] /\ pc[h] = "idle"
\* a handle slot in which an object can be constructed: the lowest unused one
\* (slots only name objects)
Unused(h) == ~alive[h] /\ pc[h] = "idle"
Free(h) == Unused(h) /\ \A g \in Handles : g < h => ~Unused(g)

\* the operation on handle h stands at `where`, holding `old` in a temporary
Enter(h, where, old) ==
    /\ pc' = [pc EXCEPT ![h] = where]
    /\ tmp' = [tmp EXCEPT ![h] = old]
\* the operation on handle h returns
Return(h) == Enter(h, "idle", NULL)

\* a failed assert() on entry to an operation: the process ends
Abort ==
    /\ fault' = "assert: precondition"
    /\ UNCHANGED <<self, alive, cell, count, value, pc, tmp>>

\* a default constructor that attaches to the constructed static cell without
\* the increment of line 174
ctor_default_unattached(h) ==
    /\ Starts /\ Free(h)
    /\ IF Live(default_model)
       THEN /\ self' = [self EXCEPT ![h] = default_model]
            /\ alive' = [alive EXCEPT ![h] = TRUE]
            /\ UNCHANGED <<cell, count, value, fault, pc, tmp>>
       ELSE /\ Commit(new_model(Heap, default_model, DefaultValue))
            /\ Enter(h, "attach", NULL)
            /\ UNCHANGED <<self, alive>>

\* ---- copy_on_write(): lines 170-175
\* line 171, default_model(): the first call constructs the static cell; every
\* later call only returns its address, and line 174 is the step
ctor_default(h) ==
    /\ Starts /\ Free(h)
    /\ IF Live(default_model)
       THEN /\ Commit(fetch_add(Heap, default_model))
            /\ self' = [self EXCEPT ![h] = default_model]
            /\ alive' = [alive EXCEPT ![h] = TRUE]
            /\ UNCHANGED <<pc, tmp>>
       ELSE /\ Commit(new_model(Heap, default_model, DefaultValue))
            /\ Enter(h, "attach", NULL)
            /\ UNCHANGED <<self, alive>>

\* line 174: _self->_count.fetch_add(1), after the static cell's construction
ctor_default_attach(h) ==
    /\ Running /\ pc[h] = "attach"
    /\ Commit(fetch_add(Heap, default_model))
    /\ self' = [self EXCEPT ![h] = default_model]
    /\ alive' = [alive EXCEPT ![h] = TRUE]
    /\ Return(h)

\* ---- copy_on_write(U&& x): lines 180-181 (and 187-189)
ctor_value(h, v) ==
    /\ Starts /\ Free(h) /\ HasFree
    /\ Commit(new_model(Heap, NewCell, v))
    /\ self' = [self EXCEPT ![h] = NewCell]
    /\ alive' = [alive EXCEPT ![h] = TRUE]
    /\ UNCHANGED <<pc, tmp>>

\* lines 180-181 when new model(x) throws: no object is constructed
ctor_value_throws(h) ==
    /\ Starts /\ Free(h)
    /\ Commit(new_throws(Heap, Memory))
    /\ Enter(h, "throw", NULL)
    /\ UNCHANGED <<self, alive>>

\* a copy constructor that copies the value into a cell of its own
ctor_copy_deep(src, dst) ==
    /\ Starts /\ Avail(src) /\ Free(dst)
    /\ IF self[src] = NULL
       THEN Abort
       ELSE /\ HasFree
            /\ Commit(new_model(Heap, NewCell, read(src)))
            /\ self' = [self EXCEPT ![dst] = NewCell]
            /\ alive' = [alive EXCEPT ![dst] = TRUE]
            /\ UNCHANGED <<pc, tmp>>

\* a copy constructor that shares the cell without counting itself
ctor_copy_uncounted(src, dst) ==
    /\ Starts /\ Avail(src) /\ Free(dst)
    /\ IF self[src] = NULL
       THEN Abort
       ELSE /\ self' = [self EXCEPT ![dst] = self[src]]
            /\ alive' = [alive EXCEPT ![dst] = TRUE]
            /\ UNCHANGED <<cell, count, value, pc, tmp, fault>>

\* ---- copy_on_write(const copy_on_write& x): lines 194-199
ctor_copy(src, dst) ==
    /\ Starts /\ Avail(src) /\ Free(dst)
    /\ IF self[src] = NULL
       THEN Abort
       ELSE /\ Commit(fetch_add(Heap, self[src]))
            /\ self' = [self EXCEPT ![dst] = self[src]]
            /\ alive' = [alive EXCEPT ![dst] = TRUE]
            /\ UNCHANGED <<pc, tmp>>

\* a move constructor that leaves the source attached
ctor_move_keeps(src, dst) ==
    /\ Starts /\ Avail(src) /\ Free(dst)
    /\ IF self[src] = NULL
       THEN Abort
       ELSE /\ self' = [self EXCEPT ![dst] = self[src]]
            /\ alive' = [alive EXCEPT ![dst] = TRUE]
            /\ UNCHANGED <<cell, count, value, pc, tmp, fault>>

\* ---- copy_on_write(copy_on_write&& x): lines 204-206
ctor_move(src, dst) ==
    /\ Starts /\ Avail(src) /\ Free(dst)
    /\ IF self[src] = NULL
       THEN Abort
       ELSE /\ self' = [self EXCEPT ![dst] = self[src], ![src] = NULL]
            /\ alive' = [alive EXCEPT ![dst] = TRUE]
            /\ UNCHANGED <<cell, count, value, pc, tmp, fault>>

\* a destructor without the test of _self of lines 212-213, which takes a null
\* handle for one whose cell is gone
dtor_unguarded(h) ==
    /\ Starts /\ Avail(h)
    /\ alive' = [alive EXCEPT ![h] = FALSE]
    /\ self' = [self EXCEPT ![h] = NULL]
    /\ Commit(IF self[h] = NULL
              THEN [Heap EXCEPT !.fault = "use after free"]
              ELSE destructor(Heap, self[h]))
    /\ UNCHANGED <<pc, tmp>>

\* ---- ~copy_on_write(): lines 211-220, on handle object h
dtor(h) ==
    /\ Starts /\ Avail(h)
    /\ alive' = [alive EXCEPT ![h] = FALSE]
    /\ self' = [self EXCEPT ![h] = NULL]
    /\ Commit(destructor(Heap, self[h]))
    /\ UNCHANGED <<pc, tmp>>

\* a copy assignment whose temporary does not attach to the cell of x
assign_copy_unattached(a, b) ==
    /\ Starts /\ Avail(a) /\ Avail(b)
    /\ IF a = b \/ self[b] = NULL
       THEN Abort
       ELSE /\ self' = [self EXCEPT ![a] = self[b]]
            /\ IF self[a] = NULL
               THEN UNCHANGED <<pc, tmp>>
               ELSE Enter(a, "release", self[a])
            /\ UNCHANGED <<alive, cell, count, value, fault>>

\* ---- operator=(const copy_on_write& x): lines 225-229.  The temporary copy of x
\* attaches (line 198); operator=(copy_on_write&&) swaps it in (line 236); what
\* `a` held before is in the temporary that line 238 destroys
assign_copy(a, b) ==
    /\ Starts /\ Avail(a) /\ Avail(b)
    /\ IF a = b \/ self[b] = NULL
       THEN Abort
       ELSE /\ Commit(fetch_add(Heap, self[b]))
            /\ self' = [self EXCEPT ![a] = self[b]]
            /\ IF self[a] = NULL
               THEN UNCHANGED <<pc, tmp>>
               ELSE Enter(a, "release", self[a])
            /\ UNCHANGED alive

\* ~copy_on_write() of the temporary of the copy assignment (lines 211-220)
release(h) ==
    /\ Running /\ pc[h] = "release"
    /\ Commit(destructor(Heap, tmp[h]))
    /\ Return(h)
    /\ UNCHANGED <<self, alive>>

\* a move assignment whose temporary is never destroyed
assign_move_unreleased(a, b) ==
    /\ Starts /\ Avail(a) /\ Avail(b)
    /\ IF self[b] = NULL
       THEN Abort
       ELSE /\ self' = IF a = b THEN self
                       ELSE [self EXCEPT ![a] = self[b], ![b] = NULL]
            /\ UNCHANGED <<alive, cell, count, value, pc, tmp, fault>>

\* ---- operator=(copy_on_write&& x): lines 234-238: the move into tmp, the swap,
\* and the destructor of tmp
assign_move(a, b) ==
    /\ Starts /\ Avail(a) /\ Avail(b)
    /\ IF self[b] = NULL
       THEN Abort
       ELSE /\ self' = IF a = b THEN self
                       ELSE [self EXCEPT ![a] = self[b], ![b] = NULL]
            /\ Commit(destructor(Heap, IF a = b THEN NULL ELSE self[a]))
            /\ UNCHANGED <<alive, pc, tmp>>

\* a value assignment that always assigns in place
assign_value_untested(h, v) ==
    /\ Starts /\ Avail(h)
    /\ IF self[h] = NULL
       THEN /\ HasFree
            /\ Commit(new_model(Heap, NewCell, v))
            /\ self' = [self EXCEPT ![h] = NewCell]
            /\ UNCHANGED <<pc, tmp>>
       ELSE /\ Enter(h, "unique", NULL)
            /\ UNCHANGED <<self, cell, count, value, fault>>
    /\ UNCHANGED alive

\* ---- operator=(U&& x): lines 244-252.  On a moved-from handle line 246 reads no
\* count and line 251 is the whole operation; on any other, the test of line 246
assign_value(h, v) ==
    /\ Starts /\ Avail(h)
    /\ IF self[h] = NULL
       THEN \/ /\ HasFree
               /\ Commit(new_model(Heap, NewCell, v))
               /\ self' = [self EXCEPT ![h] = NewCell]
               /\ UNCHANGED <<pc, tmp>>
            \/ /\ Commit(new_throws(Heap, Memory))
               /\ Enter(h, "throw", NULL)
               /\ UNCHANGED self
       ELSE /\ Enter(h, IF unique(h) THEN "unique" ELSE "shared", NULL)
            /\ UNCHANGED <<self, cell, count, value, fault>>
    /\ UNCHANGED alive

\* line 247: _self->_value = x
assign_inplace(h, v) ==
    /\ Running /\ pc[h] = "unique"
    /\ value' = [value EXCEPT ![self[h]] = v]
    /\ Return(h)
    /\ UNCHANGED <<self, alive, cell, count, fault>>

\* an assignment of a new cell that does not release the cell held before
assign_new_unreleased(h, v) ==
    /\ Running /\ pc[h] = "shared" /\ HasFree
    /\ Commit(new_model(Heap, NewCell, v))
    /\ self' = [self EXCEPT ![h] = NewCell]
    /\ Return(h)
    /\ UNCHANGED alive

\* line 251: *this = copy_on_write(x): the new cell, the swap, and the destructor
\* of the temporary that holds what the handle held before
assign_new(h, v) ==
    /\ Running /\ pc[h] = "shared" /\ HasFree
    /\ Commit(destructor(new_model(Heap, NewCell, v), self[h]))
    /\ self' = [self EXCEPT ![h] = NewCell]
    /\ Return(h)
    /\ UNCHANGED alive

\* lines 251, 264 and 290 when the temporary's construction throws: transform
\* throws, or new model(...) does; nothing has been assigned to *this
copy_throws(h) ==
    /\ Running /\ pc[h] = "shared"
    /\ Commit(new_throws(Heap, Memory))
    /\ Enter(h, "throw", NULL)
    /\ UNCHANGED <<self, alive>>

\* ---- calls of the observers on handle objects: the assert of lines 302, 328 and
\* 343, then a result that changes nothing
read_call(h) ==
    /\ Starts /\ Avail(h)
    /\ IF self[h] = NULL THEN Abort ELSE UNCHANGED vars

unique_call(h) ==
    /\ Starts /\ Avail(h)
    /\ IF self[h] = NULL THEN Abort ELSE UNCHANGED vars

identity_call(x, y) ==
    /\ Starts /\ Avail(x) /\ Avail(y)
    /\ IF self[x] = NULL \/ self[y] = NULL THEN Abort ELSE UNCHANGED vars

\* a write() with no assert, which takes a null handle for a shared one
write_unchecked(h) ==
    /\ Starts /\ Avail(h)
    /\ Enter(h, IF self[h] # NULL /\ unique(h) THEN "ref" ELSE "shared", NULL)
    /\ UNCHANGED <<self, alive, cell, count, value, fault>>

\* ---- write(): lines 263-267.  The test of line 264; on a unique handle line 266
\* follows without another access to a count, and the caller holds the reference
write(h) ==
    /\ Starts /\ Avail(h)
    /\ IF self[h] = NULL
       THEN Abort
       ELSE /\ Enter(h, IF unique(h) THEN "ref" ELSE "shared", NULL)
            /\ UNCHANGED <<self, alive, cell, count, value, fault>>

\* a copy branch that does not release the cell held before
write_copy_unreleased(h) ==
    /\ Running /\ pc[h] = "shared" /\ HasFree
    /\ Commit(new_model(Heap, NewCell, read(h)))
    /\ self' = [self EXCEPT ![h] = NewCell]
    /\ Enter(h, "ref", NULL)
    /\ UNCHANGED alive

\* line 264: *this = copy_on_write(read()) (the new cell, the swap, the destructor
\* of the temporary that holds what the handle held before), and line 266
write_copy(h) ==
    /\ Running /\ pc[h] = "shared" /\ HasFree
    /\ Commit(destructor(new_model(Heap, NewCell, read(h)), self[h]))
    /\ self' = [self EXCEPT ![h] = NewCell]
    /\ Enter(h, "ref", NULL)
    /\ UNCHANGED alive

\* the caller's store of v through the element_type& that line 266 returned
write_store(h, v) ==
    /\ Running /\ pc[h] = "ref"
    /\ value' = [value EXCEPT ![self[h]] = v]
    /\ Return(h)
    /\ UNCHANGED <<self, alive, cell, count, fault>>

\* a call that always takes the inplace branch
write2_untested(h) ==
    /\ Starts /\ Avail(h)
    /\ IF self[h] = NULL
       THEN Abort
       ELSE /\ Enter(h, "unique", NULL)
            /\ UNCHANGED <<self, alive, cell, count, value, fault>>

\* ---- write(transform, inplace): lines 282-296, the test of line 289
write2(h) ==
    /\ Starts /\ Avail(h)
    /\ IF self[h] = NULL
       THEN Abort
       ELSE /\ Enter(h, IF unique(h) THEN "unique" ELSE "shared", NULL)
            /\ UNCHANGED <<self, alive, cell, count, value, fault>>

\* a copy branch that edits the shared cell where it is
write2_transform_shared(h, e) ==
    /\ Running /\ pc[h] = "shared"
    /\ e \in Edits(read(h))
    /\ value' = [value EXCEPT ![self[h]] = transform(e, @)]
    /\ Return(h)
    /\ UNCHANGED <<self, alive, cell, count, fault>>

\* line 290: *this = copy_on_write(transform(read())) (the new cell, the swap, the
\* destructor of the temporary) and line 295; the callbacks are those of
\* document::insert and document::erase, for an edit e valid for the handle's lines
write2_transform(h, e) ==
    /\ Running /\ pc[h] = "shared" /\ HasFree
    /\ e \in Edits(read(h))
    /\ Commit(destructor(new_model(Heap, NewCell, transform(e, read(h))), self[h]))
    /\ self' = [self EXCEPT ![h] = NewCell]
    /\ Return(h)
    /\ UNCHANGED alive

\* line 292: inplace(_self->_value), and line 295
write2_inplace(h, e) ==
    /\ Running /\ pc[h] = "unique"
    /\ e \in Edits(read(h))
    /\ value' = [value EXCEPT ![self[h]] = inplace(e, @)]
    /\ Return(h)
    /\ UNCHANGED <<self, alive, cell, count, fault>>

\* a swap that only assigns to x
swap_one_way(x, y) ==
    /\ Starts /\ x < y /\ Avail(x) /\ Avail(y)
    /\ self' = [self EXCEPT ![x] = self[y]]
    /\ UNCHANGED <<alive, cell, count, value, pc, tmp, fault>>

\* ---- swap(x, y): lines 357-359
swap(x, y) ==
    /\ Starts /\ x < y /\ Avail(x) /\ Avail(y)
    /\ self' = [self EXCEPT ![x] = self[y], ![y] = self[x]]
    /\ UNCHANGED <<alive, cell, count, value, pc, tmp, fault>>

Next ==
    \/ \E h \in Handles : ctor_default(h)
    \/ \E h \in Handles : ctor_default_attach(h)
    \/ \E h \in Handles, v \in T : ctor_value(h, v)
    \/ \E h \in Handles : ctor_value_throws(h)
    \/ \E h \in Handles : copy_throws(h)
    \/ \E src, dst \in Handles : ctor_copy(src, dst)
    \/ \E src, dst \in Handles : ctor_move(src, dst)
    \/ \E h \in Handles : dtor(h)
    \/ \E a, b \in Handles : assign_copy(a, b)
    \/ \E h \in Handles : release(h)
    \/ \E a, b \in Handles : assign_move(a, b)
    \/ \E h \in Handles, v \in T : assign_value(h, v)
    \/ \E h \in Handles, v \in T : assign_inplace(h, v)
    \/ \E h \in Handles, v \in T : assign_new(h, v)
    \/ \E h \in Handles : write(h)
    \/ \E h \in Handles : write_copy(h)
    \/ \E h \in Handles, v \in T : write_store(h, v)
    \/ \E h \in Handles : write2(h)
    \/ \E h \in Handles, e \in AllEdits : write2_transform(h, e)
    \/ \E h \in Handles, e \in AllEdits : write2_inplace(h, e)
    \/ \E x, y \in Handles : swap(x, y)
    \/ \E h \in Handles : read_call(h)
    \/ \E h \in Handles : unique_call(h)
    \/ \E x, y \in Handles : identity_call(x, y)

Spec == Init /\ [][Next]_vars

\* ======================================================================
\* Properties
\* ======================================================================

\* h is a Handle: a constructed object that references a cell
Held(h) == alive[h] /\ self[h] # NULL
\* the handle objects that reference cell c, and the temporaries that do
Refs(c) == {h \in Handles : alive[h] /\ self[h] = c}
Temps(c) == {h \in Handles : pc[h] = "release" /\ tmp[h] = c}
\* no operation is in progress
Quiet == \A h \in Handles : pc[h] = "idle"

\* ---- C1
\* a step of an operation that mutates or assigns handle g, or swaps it
Targets(g) ==
    \/ \E v \in T : assign_value(g, v) \/ assign_inplace(g, v) \/ assign_new(g, v)
                    \/ write_store(g, v)
    \/ \E e \in AllEdits : write2_transform(g, e) \/ write2_inplace(g, e)
    \/ \E b \in Handles : assign_copy(g, b) \/ assign_move(g, b)
                          \/ swap(g, b) \/ swap(b, g)

\* C1: copy-on-write isolation.  Whatever the operations before, a step changes
\* the value read() returns on a Handle g only if it is a step of a mutating or
\* assigning operation on g itself: write(), write(transform, inplace) and value
\* assignment on one Handle never change what any other Handle reads.
C1_Isolation ==
    [][\A g \in Handles :
          (Held(g) /\ Held(g)' /\ read(g)' # read(g)) => Targets(g)]_vars

\* a mutating operation is in progress on h, past its uniqueness test, while
\* another Handle g shares h's heap cell and reads a non-default value
C1_Witness ==
    \E g, h \in Handles :
        /\ g # h /\ Held(g) /\ Held(h) /\ identity(g, h)
        /\ pc[h] = "shared" /\ pc[g] = "idle"
        /\ self[h] \in HeapCells /\ read(g) # DefaultValue

\* ---- C2
C2_Inv ==
    /\ \A h \in Handles : Held(h) => Live(self[h]) /\ count[self[h]] >= 1
    /\ \A h \in Handles : pc[h] = "release" => Live(tmp[h]) /\ count[tmp[h]] >= 1
    /\ fault \notin {"double free", "use after free", "assert: double delete"}
C2_Step ==
    \A c \in Cells :
        (cell[c] = "live" /\ cell'[c] # "live") =>
            /\ cell'[c] = "freed"
            /\ count[c] = 1 /\ count'[c] = 0
            /\ Cardinality(Refs(c)) + Cardinality(Temps(c)) = 1
            /\ \A h \in Handles : ~(alive'[h] /\ self'[h] = c)
            /\ \A h \in Handles : ~(pc'[h] = "release" /\ tmp'[h] = c)

\* C2: no premature or double free.  In every interleaving every non-null Handle
\* (and every temporary) references a live cell whose count is at least 1, no
\* destructor meets a freed cell or a zero count, and a step deallocates a cell
\* only when it takes the count from 1 to 0 as the one holder left, leaving no
\* Handle on the cell.
C2_NoPrematureFree == [] C2_Inv /\ [][C2_Step]_vars

\* a cell has been deallocated (its count went to 0) while a Handle on another
\* heap cell lives on
C2_Witness ==
    \E c \in HeapCells, h \in Handles :
        /\ cell[c] = "freed" /\ count[c] = 0
        /\ Held(h) /\ self[h] \in HeapCells /\ self[h] # c

\* ---- C3
C3_NoLeak ==
    /\ \A c \in HeapCells : Live(c) => Refs(c) \cup Temps(c) # {}
    /\ (Quiet /\ \A h \in Handles : ~alive[h]) => \A c \in HeapCells : ~Live(c)
C3_Step ==
    \A h \in Handles :
        (alive[h] /\ ~alive'[h] /\ self[h] \in HeapCells /\ dtor(h)) =>
            /\ fault' = "none"
            /\ cell'[self[h]] = "freed" <=> Refs(self[h]) \cup Temps(self[h]) = {h}
            /\ \A c \in HeapCells \ {self[h]} : cell'[c] = cell[c]

\* C3: no leak under concurrency.  However the Handles to a heap cell came to be
\* (copies interleaved with the other threads' operations), destroying one of
\* them deallocates the cell exactly when it is the last one on the cell, and
\* nothing else; a live heap cell always has a Handle or a temporary on it, so
\* when every Handle is destroyed no cell remains allocated.
C3_NoLeakUnderConcurrency == [] C3_NoLeak /\ [][C3_Step]_vars

\* every Handle has been destroyed, cell 1 has been allocated and deallocated,
\* and no heap cell is live
C3_Witness ==
    /\ Quiet /\ \A h \in Handles : ~alive[h]
    /\ cell[1] = "freed"
    /\ \A c \in HeapCells : ~Live(c)

\* ---- C4
\* the mutating call on b is at its uniqueness test (line 246, 264 or 289)
MutatingCall(b) == write(b) \/ write2(b) \/ \E v \in T : assign_value(b, v)
\* main() of basic_usage_test.cpp: d0, and d1 after d1.insert("Start of d1", 0)
C4_d0 == <<"Hello, world!", "After Hello">>
\* (a step of an operation on b moves pc[b])
C4_Step ==
    \A b \in Handles :
        (pc'[b] # pc[b] /\ Held(b)) =>
            \A a \in Handles \ {b} :
                (Held(a) /\ identity(a, b)) =>
                    \* the call does not take b for unique,
                    /\ (pc[b] = "idle" /\ MutatingCall(b)) =>
                           pc'[b] = "shared" /\ read(a)' = read(a)
                    \* and its copy branch leaves a alone and gives b the
                    \* mutated value
                    /\ pc[b] = "shared" =>
                           /\ \A v \in T : assign_new(b, v) =>
                                  /\ ~identity(a, b)' /\ read(a)' = read(a)
                                  /\ read(b)' = v
                           /\ write_copy(b) =>
                                  /\ ~identity(a, b)' /\ read(a)' = read(a)
                                  /\ read(b)' = read(b)
                           /\ \A e \in AllEdits : write2_transform(b, e) =>
                                  /\ ~identity(a, b)' /\ read(a)' = read(a)
                                  /\ e.kind = "insert" =>
                                         /\ Len(read(b)') = Len(read(b)) + 1
                                         /\ read(b)'[e.index + 1] = e.line
                                  /\ e.kind = "erase" =>
                                         Len(read(b)') = Len(read(b)) - 1
\* the caller's store through the reference write() returned
C4_Store ==
    \A b \in Handles :
        (pc[b] = "ref" /\ pc'[b] # "ref") =>
            \A a \in Handles \ {b}, v \in T :
                (Held(a) /\ write_store(b, v)) =>
                    /\ ~identity(a, b) /\ ~identity(a, b)'
                    /\ read(a)' = read(a) /\ read(b)' = v

\* C4: mutation breaks identity.  While a and b share a cell, a mutating call on
\* b (write(), write(transform, inplace), value assignment) finds b not unique;
\* its copy step leaves identity(a, b) false and read(a) as it was, and read(b)
\* is the mutated value (the stored value; for an insert one line more, with
\* the line at its index).  The callback of document::insert turns the two
\* lines of d0 into three, the new one first.
C4_MutationBreaksIdentity ==
    /\ [][C4_Step /\ C4_Store]_vars
    /\ [](/\ insert_transform(C4_d0, "Start of d1", 0) = <<"Start of d1">> \o C4_d0
          /\ insert_inplace(C4_d0, "Start of d1", 0) = <<"Start of d1">> \o C4_d0)

\* a and b are on two heap cells of count 1, b with one line more than a
C4_Witness ==
    \E a, b \in Handles :
        /\ Held(a) /\ Held(b) /\ Quiet /\ ~identity(a, b)
        /\ self[a] \in HeapCells /\ self[b] \in HeapCells
        /\ unique(a) /\ unique(b)
        /\ Len(read(b)) = Len(read(a)) + 1

\* ---- C5
\* C5: identity sharing.  Copy-constructing dst from a non-null Handle src
\* allocates no cell, adds exactly one to the count of src's cell and to no
\* other, leaves src and every value as they were, and yields
\* identity(src, dst) and read(src) = read(dst).
C5_CopySharesIdentity ==
    [][\A dst \in Handles :
          (~alive[dst] /\ alive'[dst]) =>
              \A src \in Handles :
                  (Held(src) /\ ctor_copy(src, dst)) =>
                      /\ cell' = cell /\ value' = value /\ fault' = "none"
                      /\ count' = [count EXCEPT ![self[src]] = @ + 1]
                      /\ self'[src] = self[src] /\ alive'[src]
                      /\ Held(dst)' /\ identity(src, dst)'
                      /\ read(src)' = read(dst)' /\ read(src)' = read(src)]_vars

\* two Handles share one heap cell whose count is 2 and whose value is not the
\* default one
C5_Witness ==
    \E a, b \in Handles :
        /\ a # b /\ Held(a) /\ Held(b) /\ Quiet /\ identity(a, b)
        /\ self[a] \in HeapCells /\ count[self[a]] = 2
        /\ read(a) # DefaultValue /\ read(a) = read(b)

\* ---- C6
\* C6: move construction.  Move-constructing dst from a non-null Handle src
\* makes dst reference the cell src referenced, sets src to null and leaves
\* every count (and every cell and value) unchanged; if src was unique before
\* the move, dst is unique after it.
C6_MoveConstruction ==
    [][\A dst \in Handles :
          (~alive[dst] /\ alive'[dst]) =>
              \A src \in Handles :
                  (Held(src) /\ ctor_move(src, dst)) =>
                      /\ self'[dst] = self[src]
                      /\ alive'[src] /\ self'[src] = NULL
                      /\ count' = count /\ cell' = cell /\ value' = value
                      /\ fault' = "none"
                      /\ unique(src) => unique(dst)'
                      /\ read(dst)' = read(src)]_vars

\* a is a moved-from object and b a unique Handle on a heap cell
C6_Witness ==
    \E a, b \in Handles :
        /\ alive[a] /\ self[a] = NULL /\ Quiet
        /\ Held(b) /\ self[b] \in HeapCells /\ unique(b)

\* ---- C7
\* C7: the default cell is immortal.  In every interleaving, once constructed
\* the default cell stays live with a count of at least 1, also when every
\* Handle that pointed to it has been destroyed: no destructor takes its count
\* to 0 and it is never deallocated.
C7_DefaultCellImmortal ==
    /\ cell[default_model] # "freed"
    /\ Live(default_model) => count[default_model] >= 1
    /\ fault # "assert: default model"

\* the default cell is live with count 1 after every Handle has been destroyed
C7_Witness ==
    /\ Live(default_model) /\ count[default_model] = 1
    /\ Quiet /\ \A h \in Handles : ~alive[h]

\* ---- C8
\* the step of a mutating operation on h that replaces or edits h's cell
Mutates(h) ==
    \/ \E v \in T : assign_inplace(h, v) \/ assign_new(h, v) \/ write_store(h, v)
    \/ write_copy(h)
    \/ \E e \in AllEdits : write2_transform(h, e) \/ write2_inplace(h, e)
C8_Inv ==
    /\ Live(default_model) => value[default_model] = DefaultValue
    /\ \A h \in Handles :
          (Held(h) /\ self[h] = default_model) =>
              /\ ~unique(h)
              /\ pc[h] \notin {"unique", "ref"}
              /\ read(h) = DefaultValue
C8_Step ==
    \A h \in Handles :
        \* a default-constructed Handle is on the default cell
        /\ (~alive[h] /\ alive'[h] /\ (ctor_default(h) \/ ctor_default_attach(h))) =>
               self'[h] = default_model /\ ~unique(h)'
        /\ (Held(h) /\ self[h] = default_model /\ pc'[h] # pc[h]) =>
               \* a mutating call on it finds it not unique
               /\ (pc[h] = "idle" /\ MutatingCall(h)) => pc'[h] = "shared"
               \* and its copy step moves it off the default cell, which the
               \* others still read as the default value
               /\ (pc[h] # "idle" /\ Mutates(h)) =>
                      /\ self'[h] \in HeapCells
                      /\ \A g \in Handles \ {h} :
                             (Held(g) /\ self[g] = default_model) =>
                                 ~identity(g, h)' /\ read(g)' = DefaultValue

\* C8: default-constructed Handles share the default cell and never mutate it.
\* A default-constructed Handle is on the default cell, so any two of them are
\* identical until one is mutated; a Handle on the default cell never reports
\* unique(), so a mutating operation on it takes the copy branch, after which
\* it is on another cell and every other Handle on the default cell still
\* reads the default value.
C8_DefaultCellShared == [] C8_Inv /\ [][C8_Step]_vars

\* a mutating operation on b, a Handle on the default cell, has found b not
\* unique while another Handle a is on the default cell too
C8_Witness ==
    \E a, b \in Handles :
        /\ a # b /\ Held(a) /\ Held(b)
        /\ self[a] = default_model /\ self[b] = default_model
        /\ pc[b] = "shared" /\ count[default_model] = 3

\* ---- C9
C9_Step ==
    \A h \in Handles :
        \* the test: a unique Handle keeps its cell, nothing is allocated and
        \* no count changes, and write() returns
        /\ (pc[h] = "idle" /\ Held(h) /\ pc'[h] # "idle" /\ write(h)) =>
               /\ pc'[h] = (IF count[self[h]] = 1 THEN "ref" ELSE "shared")
               /\ UNCHANGED <<self, cell, count, value, fault>>
        \* the copy: a fresh cell of count 1 with a copy of the value; one less
        \* on the cell held before, which stays while others hold it
        /\ (pc[h] = "shared" /\ write_copy(h)) =>
               /\ self'[h] \in HeapCells
               /\ cell[self'[h]] # "live" /\ cell'[self'[h]] = "live"
               /\ count'[self'[h]] = 1
               /\ read(h)' = read(h)
               /\ count'[self[h]] = count[self[h]] - 1
               /\ (Refs(self[h]) \cup Temps(self[h]) # {h}) =>
                      cell'[self[h]] = "live" /\ value'[self[h]] = value[self[h]]
               /\ pc'[h] = "ref" /\ fault' = "none"
        \* the store through the returned reference lands in the Handle's cell
        /\ (pc[h] = "ref" /\ pc'[h] # "ref") =>
               \A v \in T : write_store(h, v) =>
                   self'[h] = self[h] /\ read(h)' = v /\ UNCHANGED <<cell, count>>
\* at the return of write() the Handle is unique, on a live cell
C9_Returned ==
    \A h \in Handles :
        pc[h] = "ref" =>
            /\ Held(h) /\ Live(self[h]) /\ unique(h)
            /\ Refs(self[h]) \cup Temps(self[h]) = {h}

\* C9: write() with no arguments.  On a Handle that is not unique it allocates
\* a cell with count 1 that holds a copy of the value and takes exactly one
\* from the count of the cell held before, which is not freed while others hold
\* it; on a unique Handle it keeps the cell, allocates nothing and changes no
\* count.  Either way the Handle is unique when write() returns, and the
\* reference returned is into the Handle's current cell.
C9_WriteNoArg == [] C9_Returned /\ [][C9_Step]_vars

\* write() has returned on h, which is on a heap cell of its own holding the
\* same non-default value as the cell of another Handle g
C9_Witness ==
    \E g, h \in Handles :
        /\ pc[h] = "ref" /\ Held(g) /\ pc[g] = "idle"
        /\ self[g] \in HeapCells /\ self[h] \in HeapCells /\ ~identity(g, h)
        /\ read(g) = read(h) /\ read(h) # DefaultValue

\* ---- C10
C10_Step ==
    \A h \in Handles :
        pc'[h] # pc[h] =>
            \* the uniqueness test decides the callback
            /\ (pc[h] = "idle" /\ Held(h) /\ write2(h)) =>
                   /\ pc'[h] = "unique" <=> count[self[h]] = 1
                   /\ pc'[h] = "shared" <=> count[self[h]] # 1
                   /\ UNCHANGED <<self, cell, count, value, fault>>
            \* transform: only after the test found the Handle not unique; it
            \* reads the value, and its result is in a new cell
            /\ pc[h] = "shared" =>
                   \A e \in AllEdits :
                       /\ ~write2_inplace(h, e)
                       /\ write2_transform(h, e) =>
                              /\ pc'[h] = "idle"
                              /\ cell[self'[h]] # "live" /\ cell'[self'[h]] = "live"
                              /\ count'[self'[h]] = 1
                              /\ read(h)' =
                                     (IF e.kind = "insert"
                                      THEN insert_transform(read(h), e.line, e.index)
                                      ELSE erase_transform(read(h), e.index))
                              /\ cell'[self[h]] = "live" =>
                                     value'[self[h]] = value[self[h]]
            \* inplace: only after the test found the Handle unique, which it
            \* still is; the cell stays and nothing is allocated
            /\ pc[h] = "unique" =>
                   \A e \in AllEdits :
                       /\ ~write2_transform(h, e)
                       /\ write2_inplace(h, e) =>
                              /\ pc'[h] = "idle"
                              /\ unique(h) /\ Refs(self[h]) \cup Temps(self[h]) = {h}
                              /\ self' = self /\ cell' = cell /\ count' = count
                              /\ read(h)' =
                                     (IF e.kind = "insert"
                                      THEN insert_inplace(read(h), e.line, e.index)
                                      ELSE erase_inplace(read(h), e.index))

\* C10: write(transform, inplace) invokes exactly one callback, once.  The test
\* of line 289 sends the call to inplace exactly when the count of the Handle's
\* cell is 1 and to transform exactly when it is not; transform reads the value
\* and its result is in a new cell that replaces the Handle's; inplace edits the
\* value of the cell the Handle keeps, with no allocation; the call returns
\* after the one callback.
C10_OneCallback == [][C10_Step]_vars

\* two calls are past the test: one on g, found unique on its heap cell, one on
\* h, found not unique
C10_Witness ==
    \E g, h \in Handles :
        /\ pc[g] = "unique" /\ self[g] \in HeapCells
        /\ pc[h] = "shared" /\ Held(h)

\* ---- C11
C11_Step ==
    \A h \in Handles :
        \* on a moved-from object: a new cell of count 1 with v, no other count
        /\ (alive[h] /\ self[h] = NULL /\ self'[h] # NULL) =>
               \A v \in T : assign_value(h, v) =>
                   /\ self'[h] \in HeapCells
                   /\ cell[self'[h]] # "live" /\ cell'[self'[h]] = "live"
                   /\ count'[self'[h]] = 1 /\ read(h)' = v
                   /\ \A c \in Cells \ {self'[h]} :
                          count'[c] = count[c] /\ cell'[c] = cell[c]
        /\ (pc'[h] # pc[h] /\ Held(h)) =>
               \* the test of line 246
               /\ pc[h] = "idle" =>
                      \A v \in T : assign_value(h, v) =>
                          /\ pc'[h] = (IF count[self[h]] = 1 THEN "unique" ELSE "shared")
                          /\ UNCHANGED <<self, cell, count, value, fault>>
               \* unique: the value is overwritten where it is
               /\ pc[h] = "unique" =>
                      \A v \in T : assign_inplace(h, v) =>
                          /\ self' = self /\ cell' = cell /\ count' = count
                          /\ read(h)' = v
                          /\ Refs(self[h]) \cup Temps(self[h]) = {h}
               \* not unique: a new cell of count 1 with v is swapped in, the
               \* cell held before loses one count, its other holders read on
               /\ pc[h] = "shared" =>
                      \A v \in T : assign_new(h, v) =>
                          /\ self'[h] \in HeapCells
                          /\ cell[self'[h]] # "live" /\ cell'[self'[h]] = "live"
                          /\ count'[self'[h]] = 1 /\ read(h)' = v
                          /\ count'[self[h]] = count[self[h]] - 1
                          /\ \A c \in Cells \ {self[h], self'[h]} : count'[c] = count[c]
                          /\ \A g \in Handles \ {h} :
                                 (Held(g) /\ identity(g, h)) =>
                                     self'[g] = self[g] /\ read(g)' = read(g)

\* C11: value assignment h = v.  On a non-null unique Handle the value is
\* overwritten in the cell the Handle keeps, with no allocation and no count
\* change; otherwise a new cell of count 1 holding v is allocated and swapped
\* in, the cell held before (if any) loses exactly one count, and every other
\* Handle on that cell still reads the old value.
C11_ValueAssignment == [][C11_Step]_vars

\* g and h are on heap cells of their own; h reads the default value, g another
C11_Witness ==
    \E g, h \in Handles :
        /\ Quiet /\ Held(g) /\ Held(h) /\ ~identity(g, h)
        /\ self[g] \in HeapCells /\ self[h] \in HeapCells
        /\ unique(g) /\ unique(h)
        /\ read(h) = DefaultValue /\ read(g) # DefaultValue

\* ---- C12
C12_Step ==
    \A a \in Handles :
        \* the attach: one more on b's cell and nothing released yet; what a
        \* held is kept by the temporary
        /\ (pc[a] = "idle" /\ alive[a] /\ (pc'[a] = "release" \/ self'[a] # self[a])) =>
               \A b \in Handles \ {a} :
                   (Held(b) /\ assign_copy(a, b)) =>
                       /\ count' = [count EXCEPT ![self[b]] = @ + 1]
                       /\ cell' = cell /\ value' = value /\ fault' = "none"
                       /\ identity(a, b)' /\ self'[b] = self[b]
                       /\ self[a] # NULL =>
                              /\ pc'[a] = "release" /\ tmp'[a] = self[a]
                              /\ count'[self[a]] >= count[self[a]]
                       /\ self[a] = NULL => pc'[a] = "idle"
        \* the release: one less on the cell held before, freed iff that was
        \* the last count
        /\ (pc[a] = "release" /\ release(a)) =>
               /\ count' = [count EXCEPT ![tmp[a]] = @ - 1]
               /\ self' = self /\ fault' = "none" /\ pc'[a] = "idle"
               /\ tmp[a] \in HeapCells => (cell'[tmp[a]] = "freed" <=> count'[tmp[a]] = 0)
               /\ tmp[a] = default_model => cell' = cell
               /\ \A c \in Cells \ {tmp[a]} : cell'[c] = cell[c]
\* between the attach and the release both cells are held; a cell that a
\* already shared with b has a count of 2 or more, so the release leaves it
\* at 1 or more
C12_Between ==
    \A a \in Handles :
        pc[a] = "release" =>
            /\ Held(a) /\ Live(self[a]) /\ Live(tmp[a])
            /\ count[self[a]] >= 1 /\ count[tmp[a]] >= 1
            /\ tmp[a] = self[a] => count[self[a]] >= 2

\* C12: copy assignment a = b, a and b distinct objects and b non-null, first
\* attaches a to b's cell (one increment, identity(a, b) true) and only then
\* releases the cell a held (one decrement, the cell freed iff its count
\* reached zero).  If a and b shared the cell already its count does not
\* reach 0 in between, and the increment and the decrement cancel.
C12_CopyAssignment == [] C12_Between /\ [][C12_Step]_vars

\* a copy assignment to a has attached a to the heap cell of b and has yet to
\* release the other heap cell, which a held before
C12_Witness ==
    \E a, b \in Handles :
        /\ a # b /\ pc[a] = "release" /\ Held(b) /\ identity(a, b)
        /\ self[a] \in HeapCells /\ tmp[a] \in HeapCells /\ tmp[a] # self[a]
\* the same with a and b on one cell from the start: the count is at 3
C12_WitnessShared ==
    \E a, b \in Handles :
        /\ a # b /\ pc[a] = "release" /\ Held(b) /\ identity(a, b)
        /\ tmp[a] = self[a] /\ count[self[a]] = 3

\* ---- C13
\* the statement as the specification words it, read for distinct objects a
\* and b with b non-null: a = std::move(b) leaves a on b's former cell and b
\* null, leaves the count of b's former cell as it was, and takes one from the
\* count of the cell a held
C13_AsWorded ==
    [][\A b \in Handles :
          (Held(b) /\ pc[b] = "idle") =>
              \A a \in Handles \ {b} :
                  (alive[a] /\ assign_move(a, b)) =>
                      /\ self'[a] = self[b] /\ self'[b] = NULL
                      /\ count'[self[b]] = count[self[b]]
                      /\ self[a] # NULL =>
                             count'[self[a]] = count[self[a]] - 1]_vars

\* C13: move assignment a = std::move(b), b non-null.  For distinct objects a
\* and b it leaves a on b's former cell and b null, and releases the cell a
\* held before exactly once: that cell's count drops by one (the cell is freed
\* iff the count reaches zero) and no other count changes, so the count of b's
\* former cell is unchanged unless a held that same cell, in which case it
\* drops by one.  Moving a Handle into itself changes nothing.
C13_MoveAssignment ==
    [][\A b \in Handles :
          (pc' = pc /\ alive' = alive /\ Held(b) /\ pc[b] = "idle") =>
              \A a \in Handles :
                  (alive[a] /\ assign_move(a, b)) =>
                      IF a = b
                      THEN UNCHANGED vars
                      ELSE /\ self'[a] = self[b] /\ self'[b] = NULL
                           /\ alive' = alive /\ value'[self[b]] = value[self[b]]
                           /\ fault' = "none"
                           /\ count' = IF self[a] = NULL THEN count
                                       ELSE [count EXCEPT ![self[a]] = @ - 1]
                           /\ \A c \in Cells :
                                  cell'[c] = IF c = self[a] /\ c # default_model
                                                /\ count'[c] = 0
                                             THEN "freed" ELSE cell[c]]_vars

\* b is a moved-from object, a is on heap cell 2, and heap cell 1 has been freed
C13_Witness ==
    \E a, b \in Handles :
        /\ Quiet /\ alive[b] /\ self[b] = NULL
        /\ Held(a) /\ self[a] = 2 /\ unique(a)
        /\ cell[1] = "freed"

\* ---- C14
\* C14: swap(a, b) exchanges the cell references of the two Handles, null or
\* not, and changes nothing else: no count, no value, no cell allocated or
\* deallocated, no other Handle.
C14_Swap ==
    [][\A x, y \in Handles :
          (self' # self /\ pc' = pc /\ alive[x] /\ alive[y] /\ swap(x, y)) =>
              /\ self'[x] = self[y] /\ self'[y] = self[x]
              /\ \A h \in Handles \ {x, y} : self'[h] = self[h]
              /\ UNCHANGED <<alive, cell, count, value, fault>>]_vars

\* x is a null Handle object and y, constructed after it, is on the default
\* cell, whose count is 2
C14_Witness ==
    \E x, y \in Handles :
        /\ x < y /\ Quiet /\ alive[x] /\ self[x] = NULL
        /\ Held(y) /\ self[y] = default_model /\ count[default_model] = 2

\* ---- C15
\* C15: equality and ordering of Handles are consistent.  For all non-null
\* Handles a and b that can be compared (the process runs and no operation is
\* in progress on either) in every reachable state: a == b iff identity(a, b) or
\* *a == *b; a < b iff not identity(a, b) and *a < *b; a > b, a <= b, a >= b
\* are b < a, not b < a, not a < b.  So identical Handles are never less than
\* each other and always <= and >= each other; and since identical Handles read
\* one value, == and < on Handles agree with == and < on the values, and
\* exactly one of a < b, a == b, a > b holds.
C15_Comparisons ==
    \A a, b \in Handles :
        (a <= b /\ Running /\ Avail(a) /\ Avail(b) /\ Held(a) /\ Held(b)) =>
            LET id == identity(a, b)
                eq == op_eq(a, b)
                lt == op_lt(a, b)
                gt == op_lt(b, a)
                values_lt == value_lt(read(a), read(b))
                values_gt == value_lt(read(b), read(a))
            IN  /\ eq <=> (id \/ read(a) = read(b))
                /\ op_eq(b, a) <=> eq
                /\ lt <=> (~id /\ values_lt)
                /\ gt <=> (~id /\ values_gt)
                /\ op_gt(a, b) <=> gt
                /\ op_gt(b, a) <=> lt
                /\ op_le(a, b) <=> ~gt
                /\ op_le(b, a) <=> ~lt
                /\ op_ge(a, b) <=> ~lt
                /\ op_ge(b, a) <=> ~gt
                /\ op_ne(a, b) <=> ~eq
                /\ op_ne(b, a) <=> ~eq
                /\ id => ~lt /\ ~gt /\ op_le(a, b) /\ op_ge(a, b) /\ eq
                /\ eq <=> read(a) = read(b)
                /\ lt <=> values_lt
                /\ gt <=> values_gt
                /\ (IF lt THEN 1 ELSE 0) + (IF eq THEN 1 ELSE 0)
                       + (IF gt THEN 1 ELSE 0) = 1

\* a and b are on different cells; a reads less than b, and another pair of
\* values is equal on different cells
C15_Witness ==
    \E a, b \in Handles :
        /\ Running /\ Avail(a) /\ Avail(b)
        /\ Held(a) /\ Held(b) /\ ~identity(a, b)
        /\ op_lt(a, b) /\ ~op_eq(a, b) /\ op_ge(b, a) /\ ~op_le(b, a)
C15_WitnessEqual ==
    \E a, b \in Handles :
        /\ Running /\ Avail(a) /\ Avail(b)
        /\ Held(a) /\ Held(b) /\ ~identity(a, b)
        /\ op_eq(a, b) /\ ~op_lt(a, b) /\ ~op_lt(b, a)

\* ---- C16
\* C16: when the construction of the replacement cell throws (operator new, the
\* copy of the element or transform) in the copy branch of write(), of
\* write(transform, inplace) or of a value assignment, or in the value-forwarding
\* constructor, the step that throws leaves no cell allocated that was not, leaves
\* every handle on the cell it referenced and that cell live with its value, and
\* changes no count; a constructor that throws constructs no object.
C16_Step ==
    \A h \in Handles :
        (pc'[h] = "throw" /\ pc[h] # "throw") =>
            /\ pc[h] \in {"idle", "shared"}
            /\ fault' = "uncaught exception"
            /\ UNCHANGED <<self, alive, cell, count, value>>
            /\ pc[h] = "shared" =>
                   /\ Held(h)
                   /\ cell'[self'[h]] = "live"
                   /\ count'[self'[h]] >= 1
                   /\ value'[self'[h]] = read(h)
            /\ pc[h] = "idle" =>
                   \/ ~alive[h] /\ ~alive'[h]
                   \/ alive[h] /\ self[h] = NULL /\ self'[h] = NULL
C16_StrongExceptionSafety == [][C16_Step]_vars

\* the copy branch on a shared handle has thrown although memory was to be had:
\* the handle is on its cell, still shared, with the lines it held
C16_Witness ==
    \E h \in Handles :
        /\ pc[h] = "throw" /\ Held(h) /\ HasFree
        /\ self[h] \in HeapCells /\ Live(self[h])
        /\ count[self[h]] = 2
        /\ read(h) # DefaultValue
\* the value-forwarding constructor has thrown: there is no object, and no cell
C16_WitnessConstruction ==
    \E h \in Handles :
        /\ pc[h] = "throw" /\ ~alive[h]
        /\ \A c \in HeapCells : ~Live(c)

\* ---- C17
\* a use of handle object h that the claim names: read(), unique(), identity()
\* with h as either operand, write() in either form, copy construction from h
NullUse(h) ==
    \/ read_call(h)
    \/ unique_call(h)
    \/ write(h)
    \/ write2(h)
    \/ \E g \in Handles : identity_call(h, g) \/ identity_call(g, h) \/ ctor_copy(h, g)

\* C17: with assert() compiled in, read(), unique(), identity() (either operand),
\* write() in either form and copy construction from a null (moved-from) handle
\* end in a failed assertion; the failed assertion changes no count, no value,
\* no cell and no handle, and no step follows it: no result is returned and the
\* handle is not repaired.
C17_Step ==
    /\ fault = "none"
    /\ fault' = "assert: precondition" =>
           UNCHANGED <<self, alive, cell, count, value, pc, tmp>>
    /\ \A h \in Handles :
           (Avail(h) /\ self[h] = NULL /\ NullUse(h)) =>
               fault' = "assert: precondition"
C17_NullUseIsFatal == [][C17_Step]_vars

\* an assertion has failed where a handle is null (moved from) and another
\* handle holds a cell with lines: there were a count and a value to change
C17_Witness ==
    /\ fault = "assert: precondition"
    /\ Quiet
    /\ \E h \in Handles : alive[h] /\ self[h] = NULL
    /\ \E g \in Handles :
           Held(g) /\ self[g] \in HeapCells /\ unique(g) /\ read(g) # DefaultValue

\* ---- C18
\* the permanent unit of count of the static cell (line 126, never released)
Baseline(c) == IF c = default_model THEN 1 ELSE 0

\* C18: in every reachable state with no operation part-way through, the count of
\* each live heap cell is the number of non-null handles that reference it, and
\* the count of the default cell is that number plus one.  Part-way through an
\* operation the same holds with the operation's temporary counted as a handle.
C18_RefCount ==
    /\ Quiet =>
           \A c \in Cells : Live(c) => count[c] = Cardinality(Refs(c)) + Baseline(c)
    /\ \A c \in Cells :
           Live(c) =>
               count[c] = Cardinality(Refs(c)) + Cardinality(Temps(c)) + Baseline(c)

\* every handle object of the model is on one heap cell, with nothing in progress
C18_Witness ==
    /\ Quiet /\ fault = "none"
    /\ \E c \in HeapCells :
           /\ Live(c) /\ count[c] = MaxHandles
           /\ \A h \in Handles : Held(h) /\ self[h] = c
\* every handle object of the model is on the default cell
C18_WitnessDefault ==
    /\ Quiet /\ fault = "none"
    /\ Live(default_model) /\ count[default_model] = MaxHandles + 1
    /\ \A h \in Handles : Held(h) /\ self[h] = default_model

\* ---- C19
\* the handles other than h that reference cell c, and the operations on other
\* handles that are past their test and have yet to read the value of c to copy it
Sharers(c, h) == Refs(c) \ {h}
Copying(c, h) == {g \in Handles \ {h} : pc[g] = "shared" /\ self[g] = c}

C19_Inv ==
    /\ \A g, h \in Handles :
           (g # h /\ Held(g) /\ Held(h) /\ identity(g, h)) => count[self[h]] >= 2
    \* an operation that has taken the in-place branch, or has handed out the
    \* reference of write(), is on a cell that no one else references or copies
    /\ \A h \in Handles :
           pc[h] \in {"unique", "ref"} =>
               /\ count[self[h]] = 1
               /\ Sharers(self[h], h) = {} /\ Temps(self[h]) = {}
               /\ Copying(self[h], h) = {}
C19_Step ==
    \* the test sends an operation on a handle that shares its cell to the copy
    \* branch
    /\ \A h \in Handles :
           (pc[h] = "idle" /\ pc'[h] \in {"unique", "shared", "ref"}) =>
               (Sharers(self[h], h) # {} => pc'[h] = "shared")
    \* a value that changes where it is changes by the step of an operation on
    \* the one handle that references the cell, and no one is copying from it
    /\ value' # value =>
           \A c \in Cells :
               (cell[c] = "live" /\ cell'[c] = "live" /\ value'[c] # value[c]) =>
                   \E h \in Handles :
                       /\ pc[h] \in {"unique", "ref"} /\ pc'[h] = "idle"
                       /\ self[h] = c /\ count[c] = 1
                       /\ Refs(c) = {h} /\ Temps(c) = {} /\ Copying(c, h) = {}

\* C19: with one thread at a time on a handle object, two distinct Handles on one
\* cell mean a count of 2 or more, so the test of a mutating operation on either
\* sends it to the copy branch; a cell's value is changed in place only by an
\* operation on the one Handle that references it, while no operation on another
\* handle is reading that value to copy it.
C19_RaceFreedom == [] C19_Inv /\ [][C19_Step]_vars

\* two threads are past the test on two Handles that share a heap cell: both
\* have been sent to the copy branch and both have yet to read the lines
C19_Witness ==
    \E g, h \in Handles :
        /\ g # h /\ Held(g) /\ Held(h) /\ identity(g, h)
        /\ pc[g] = "shared" /\ pc[h] = "shared"
        /\ self[h] \in HeapCells /\ count[self[h]] = 2
        /\ read(h) # DefaultValue
\* one thread edits its own cell in place while another is in the copy branch
\* on another cell, which is shared
C19_WitnessInPlace ==
    \E g, h \in Handles :
        /\ pc[h] \in {"unique", "ref"} /\ pc[g] = "shared"
        /\ self[g] # self[h]

\* ---- C20
\* the static cell is constructed with count 1; the first Handle to attach makes
\* it 2 and is default constructed; every default construction adds one
C20_Construction ==
    /\ (cell[default_model] # "live" /\ cell'[default_model] = "live") =>
           count'[default_model] = 1
    /\ (Live(default_model) /\ count[default_model] = 1
            /\ count'[default_model] # count[default_model]) =>
           /\ count'[default_model] = 2
           /\ \E h \in Handles :
                  /\ ~alive[h] /\ alive'[h] /\ self'[h] = default_model
                  /\ ctor_default(h) \/ ctor_default_attach(h)
    /\ \A h \in Handles :
           (~alive[h] /\ alive'[h] /\ self'[h] = default_model
                /\ (ctor_default(h) \/ ctor_default_attach(h))) =>
               count'[default_model] = count[default_model] + 1

\* C20 as worded: ... and once a Handle has attached, no operation takes the
\* count of the default cell back to the baseline of 1.
C20_AsWorded ==
    [][/\ C20_Construction
       /\ (Live(default_model) /\ count[default_model] >= 2) =>
              count'[default_model] # 1]_vars

\* C20: the default cell's count starts at 1, the first attaching Handle makes
\* it 2, and every default construction adds one; no operation takes it below
\* the baseline of 1 or deallocates the cell, and it is back at 1 exactly when
\* the last Handle (or temporary) on the default cell has let go of it.
C20_DefaultCount ==
    [][/\ C20_Construction
       /\ Live(default_model) =>
              /\ cell'[default_model] = "live"
              /\ count'[default_model] >= 1
              /\ count'[default_model] \in
                     {count[default_model] - 1, count[default_model],
                      count[default_model] + 1}
              /\ (count'[default_model] = 1) <=>
                     (Refs(default_model)' = {} /\ Temps(default_model)' = {})]_vars

\* the count of the default cell is back at 1: the Handle that was default
\* constructed has been assigned lines and holds a heap cell of its own
C20_Witness ==
    /\ Quiet /\ fault = "none"
    /\ Live(default_model) /\ count[default_model] = 1
    /\ \E h \in Handles :
           Held(h) /\ self[h] \in HeapCells /\ read(h) # DefaultValue

\* ---- C21
\* no count has gone down and no cell has been deallocated
NoRelease ==
    /\ \A c \in Cells : count'[c] >= count[c]
    /\ \A c \in Cells : cell[c] = "live" => cell'[c] = "live"

C21_Step ==
    \A h \in Handles :
        (pc[h] = "idle" /\ alive[h] /\ self[h] = NULL) =>
            \* destruction: no count changes, nothing is deallocated
            /\ (~alive'[h] /\ dtor(h)) =>
                   UNCHANGED <<cell, count, value, fault>>
            \* copy assignment from a Handle b: h is on b's cell, which has one
            \* count more; no temporary is left to release
            /\ self'[h] # NULL =>
                   \A b \in Handles \ {h} :
                       (Held(b) /\ assign_copy(h, b)) =>
                           /\ fault' = "none" /\ NoRelease
                           /\ self'[h] = self[b] /\ self'[b] = self[b]
                           /\ count' = [count EXCEPT ![self[b]] = @ + 1]
                           /\ pc'[h] = "idle" /\ cell' = cell /\ value' = value
            \* move assignment from a Handle b: h is on b's cell, b is null,
            \* no count changes
            /\ self'[h] # NULL =>
                   \A b \in Handles \ {h} :
                       (Held(b) /\ assign_move(h, b)) =>
                           /\ fault' = "none" /\ NoRelease
                           /\ self'[h] = self[b] /\ self'[b] = NULL
                           /\ UNCHANGED <<cell, count, value, pc>>
            \* value assignment: a fresh cell of count 1 with the value, no
            \* other count changes
            /\ self'[h] # NULL =>
                   \A v \in T :
                       assign_value(h, v) =>
                           /\ fault' = "none" /\ NoRelease
                           /\ self'[h] \in HeapCells
                           /\ cell[self'[h]] # "live" /\ cell'[self'[h]] = "live"
                           /\ count' = [count EXCEPT ![self'[h]] = 1]
                           /\ read(h)' = v /\ pc'[h] = "idle"
            \* whichever of the three it was, the Handle is usable again: it
            \* is on a live cell with a count and a value, and no operation is
            \* in progress on it
            /\ (self'[h] # NULL /\ alive'[h]) =>
                   /\ cell'[self'[h]] = "live" /\ count'[self'[h]] >= 1
                   /\ value'[self'[h]] \in T
                   /\ pc'[h] = "idle" /\ fault' = "none"
            \* and none of the four ends in a failed assertion
            /\ fault' = "assert: precondition" =>
                   /\ ~dtor(h)
                   /\ \A b \in Handles \ {h} :
                          Held(b) => ~assign_copy(h, b) /\ ~assign_move(h, b)
                   /\ \A v \in T : ~assign_value(h, v)
\* what `usable again` rests on: on a Handle with no operation in progress,
\* write() in either form starts without a failed assertion
C21_Usable ==
    \A h \in Handles :
        (pc'[h] # pc[h] /\ pc[h] = "idle" /\ Held(h) /\ (write(h) \/ write2(h))) =>
            fault' = "none" /\ pc'[h] \in {"unique", "shared", "ref"}

\* C21: a null (moved-from) handle can be destroyed and revived.  Destroying it
\* changes no count and deallocates nothing.  Copy assignment or move
\* assignment from a Handle, or value assignment, onto it ends in no failed
\* assertion and decrements nothing; the handle is then non-null, on the
\* source's cell or on a fresh cell of count 1 with the value (unless the
\* allocation of that cell throws), and read(), unique(), identity() and
\* write() are usable on it again.
C21_NullHandle == [][C21_Step /\ C21_Usable]_vars

\* a moved-from handle h next to a Handle b on a heap cell with lines, nothing
\* in progress: h can be destroyed, or assigned from b, or assigned a value
C21_Witness ==
    \E h, b \in Handles :
        /\ Running /\ Avail(h) /\ Avail(b)
        /\ self[h] = NULL
        /\ Held(b) /\ self[b] \in HeapCells /\ read(b) # DefaultValue
        /\ HasFree
====
